---- MODULE Spec2Model ----
(***************************************************************************)
(* Model of the text decomposition / recomposition helpers of              *)
(* textmentations/augmentations/utils.py, of the TextTransform facade of   *)
(* text_augmentation/transforms.py and of the serialization round trip of  *)
(* tests/test_serialization.py.                                            *)
(*                                                                         *)
(* A Python str is modelled as a sequence of one-character strings, a      *)
(* Python list of str as a sequence of such sequences.                     *)
(***************************************************************************)
EXTENDS Integers, Sequences, FiniteSets, TLC

VARIABLES op, args, ret, calls,
          stage, augment, serialized_augment, deserialized_augment,
          augmented_data, deserialized_augmented_data, raised

callVars == <<op, args, ret, calls>>
testVars == <<stage, augment, serialized_augment, deserialized_augment,
              augmented_data, deserialized_augmented_data, raised>>
vars == <<op, args, ret, calls,
          stage, augment, serialized_augment, deserialized_augment,
          augmented_data, deserialized_augmented_data, raised>>

-----------------------------------------------------------------------------
(* Bounds of the model.                                                    *)

\* longest raw input string
MaxLen == 5
\* indices n range over -MaxN .. MaxN
MaxN == 2
\* longest list of well-formed sentences given to wrap_text_with_sentences
MaxSentences == 2
\* longest element list given to the deletion algorithm
MaxElems == 4
\* largest minimum-retained count given to the deletion algorithm
MaxMinRetained == 3

-----------------------------------------------------------------------------
(* Characters and strings.                                                 *)

Dot == "."
Space == " "
Tab == "\t"
\* the characters str.strip() and str.split() treat as whitespace
Whitespace == {Space, Tab}
Alphabet == {"a", "b", Dot, Space, Tab}

RECURSIVE StringsOfLen(_)
StringsOfLen(k) ==
    IF k = 0 THEN {<<>>}
    ELSE {Append(s, c) : s \in StringsOfLen(k - 1), c \in Alphabet}

Strings == UNION {StringsOfLen(k) : k \in 0..MaxLen}

\* "x" in s
Contains(s, c) == \E i \in 1..Len(s) : s[i] = c

\* str.strip(): drop leading and trailing whitespace
RECURSIVE str_lstrip(_)
str_lstrip(s) ==
    IF s # <<>> /\ Head(s) \in Whitespace THEN str_lstrip(Tail(s)) ELSE s

RECURSIVE str_rstrip(_)
str_rstrip(s) ==
    IF s # <<>> /\ s[Len(s)] \in Whitespace
    THEN str_rstrip(SubSeq(s, 1, Len(s) - 1))
    ELSE s

str_strip(s) == str_rstrip(str_lstrip(s))

\* re.split(r"[.]", s) and s.split('.'): cut at every '.', keeping empty pieces
RECURSIVE split_on_dot(_)
split_on_dot(s) ==
    IF ~Contains(s, Dot) THEN <<s>>
    ELSE LET i == CHOOSE j \in 1..Len(s) :
                      s[j] = Dot /\ \A k \in 1..(j - 1) : s[k] # Dot
         IN <<SubSeq(s, 1, i - 1)>> \o split_on_dot(SubSeq(s, i + 1, Len(s)))

\* s.split(): cut at runs of whitespace, no empty pieces
RECURSIVE str_split(_)
str_split(s) ==
    LET t == str_lstrip(s)
    IN IF t = <<>> THEN <<>>
       ELSE LET n == IF \E j \in 1..Len(t) : t[j] \in Whitespace
                     THEN (CHOOSE j \in 1..Len(t) :
                              t[j] \in Whitespace
                              /\ \A k \in 1..(j - 1) : t[k] \notin Whitespace) - 1
                     ELSE Len(t)
            IN <<SubSeq(t, 1, n)>> \o str_split(SubSeq(t, n + 1, Len(t)))

\* sep.join(strings)
RECURSIVE str_join(_, _)
str_join(sep, strings) ==
    IF strings = <<>> THEN <<>>
    ELSE IF Len(strings) = 1 THEN strings[1]
    ELSE strings[1] \o sep \o str_join(sep, Tail(strings))

-----------------------------------------------------------------------------
(* utils.py: split and join.                                               *)

RECURSIVE FilterNonEmpty(_)
FilterNonEmpty(strings) ==
    IF strings = <<>> THEN <<>>
    ELSE IF Head(strings) # <<>>
         THEN <<Head(strings)>> \o FilterNonEmpty(Tail(strings))
         ELSE FilterNonEmpty(Tail(strings))

strip(strings) == [i \in 1..Len(strings) |-> str_strip(strings[i])]

remove_empty_strings(strings) == FilterNonEmpty(strings)

\* faulty variant: strips, keeps the empty strings
strip_v2_keep_empty(strings) == [i \in 1..Len(strings) |-> str_strip(strings[i])]

\* faulty variant: drops the empty strings, does not strip
strip_v2_no_strip(strings) == FilterNonEmpty(strings)

strip_v2(strings) == FilterNonEmpty(strip(strings))

split_sentence_into_words(sentence) == strip_v2(str_split(sentence))

split_text_into_sentences(text) == strip_v2(split_on_dot(text))

join_words_into_sentence(words) == str_join(<<Space>>, words)

join_sentences_into_text(sentences) ==
    LET text == str_join(<<Dot, Space>>, sentences)
    IN IF text # <<>> THEN text \o <<Dot>> ELSE text


-----------------------------------------------------------------------------
(* utils.py: index-based operations.  A Python list index n is valid iff   *)
(* -len <= n < len; a negative n counts from the end.                      *)

IndexInRange(list, n) == -Len(list) <= n /\ n < Len(list)

\* the 1-based position of Python index n
Position(list, n) == IF n >= 0 THEN n + 1 ELSE Len(list) + n + 1

\* the list after `del list[n]`
DelItem(list, n) ==
    LET i == Position(list, n)
    IN SubSeq(list, 1, i - 1) \o SubSeq(list, i + 1, Len(list))

\* faulty variant: an explicit bounds check that rejects negative indices
extract_nth_sentence_nonneg(text, n) ==
    LET sentences == split_text_into_sentences(text)
    IN IF 0 <= n /\ n < Len(sentences) THEN sentences[n + 1] ELSE <<>>

extract_nth_sentence(text, n) ==
    LET sentences == split_text_into_sentences(text)
    IN IF IndexInRange(sentences, n)
       THEN sentences[Position(sentences, n)]
       ELSE <<>>

\* faulty variant: the except branch returns the re-joined sentences
remove_nth_sentence_rejoin(text, n) ==
    LET sentences == split_text_into_sentences(text)
    IN IF IndexInRange(sentences, n)
       THEN join_sentences_into_text(DelItem(sentences, n))
       ELSE join_sentences_into_text(sentences)

remove_nth_sentence(text, n) ==
    LET sentences == split_text_into_sentences(text)
    IN IF IndexInRange(sentences, n)
       THEN join_sentences_into_text(DelItem(sentences, n))
       ELSE text

\* an optional argument: None, or a list
None == [isNone |-> TRUE]
Some(list) == [isNone |-> FALSE, val |-> list]
\* `if prefix_sentences`: None and the empty list are both falsy
Truthy(opt) == ~opt.isNone /\ opt.val # <<>>

wrap_text_with_sentences(text, prefix_sentences, suffix_sentences) ==
    LET prefix_text == IF Truthy(prefix_sentences)
                       THEN join_sentences_into_text(prefix_sentences.val)
                       ELSE <<>>
        suffix_text == IF Truthy(suffix_sentences)
                       THEN join_sentences_into_text(suffix_sentences.val)
                       ELSE <<>>
    IN str_strip(str_join(<<Space>>, <<prefix_text, text, suffix_text>>))

-----------------------------------------------------------------------------
(* utils.py: the decorators.  A decorated call yields its return value and *)
(* the invocations of the decorated function it made, in order.            *)

\* functions (text, n) -> text that pass_empty_text decorates
TextFuncs == {"remove_nth_sentence", "extract_nth_sentence"}

TextFn(func, text, n) ==
    IF func = "remove_nth_sentence" THEN remove_nth_sentence(text, n)
    ELSE extract_nth_sentence(text, n)

\* functions (list, n) -> list that autopsy_sentence / autopsy_text decorate:
\* the docstrings' `del words[n]` guarded by `except IndexError`, the
\* identity, and a reversal
ListFuncs == {"identity", "remove_nth", "reverse"}

ListFn(func, list, n) ==
    IF func = "identity" THEN list
    ELSE IF func = "remove_nth"
         THEN (IF IndexInRange(list, n) THEN DelItem(list, n) ELSE list)
    ELSE [i \in 1..Len(list) |-> list[Len(list) + 1 - i]]

\* faulty variant: no guard, the decorated function is always invoked
pass_empty_text_unguarded(func, text, n) ==
    [ret |-> TextFn(func, text, n),
     calls |-> <<[func |-> func, arg |-> text, n |-> n]>>]

pass_empty_text(func, text, n) ==
    IF text = <<>>
    THEN [ret |-> text, calls |-> <<>>]
    ELSE [ret |-> TextFn(func, text, n),
          calls |-> <<[func |-> func, arg |-> text, n |-> n]>>]

\* faulty variant: the words' join used for sentences
autopsy_text_join_words(func, text, n) ==
    LET sentences == split_text_into_sentences(text)
        augmented_sentences == ListFn(func, sentences, n)
    IN [ret |-> join_words_into_sentence(augmented_sentences),
        calls |-> <<[func |-> func, arg |-> sentences, n |-> n]>>]

autopsy_text(func, text, n) ==
    LET sentences == split_text_into_sentences(text)
        augmented_sentences == ListFn(func, sentences, n)
    IN [ret |-> join_sentences_into_text(augmented_sentences),
        calls |-> <<[func |-> func, arg |-> sentences, n |-> n]>>]

autopsy_sentence(func, sentence, n) ==
    LET words == split_sentence_into_words(sentence)
        augmented_words == ListFn(func, words, n)
    IN [ret |-> join_words_into_sentence(augmented_words),
        calls |-> <<[func |-> func, arg |-> words, n |-> n]>>]

-----------------------------------------------------------------------------
(* transforms.py: the TextTransform facade.                                *)

\* text.split('.')[:-1]
get_sentences_from_text(text) ==
    LET sentences == split_on_dot(text)
    IN SubSeq(sentences, 1, Len(sentences) - 1)

get_words_from_sentence(sentence) == str_split(sentence)

combine_sentences(sentences) == str_join(<<Dot>>, sentences) \o <<Dot>>

combine_words(words) == str_join(<<Space>>, words)

-----------------------------------------------------------------------------
(* The functional module (imported as F by transforms.py).  Probabilities  *)
(* and random draws are in percent: a draw d in [0, 100) deletes iff       *)
(* d < deletion_prob.                                                      *)

Probabilities == {0, 10, 100}
Draws == {0, 50}

RECURSIVE delete_loop(_, _, _, _, _)
delete_loop(rest, kept, min_retained, deletion_prob, draws) ==
    IF rest = <<>> THEN kept
    ELSE IF Len(kept) + Len(rest) = min_retained THEN kept \o rest
    ELSE IF Head(draws) < deletion_prob
         THEN delete_loop(Tail(rest), kept, min_retained, deletion_prob, Tail(draws))
         ELSE delete_loop(Tail(rest), Append(kept, Head(rest)), min_retained,
                          deletion_prob, Tail(draws))

RECURSIVE delete_no_floor(_, _, _)
delete_no_floor(rest, deletion_prob, draws) ==
    IF rest = <<>> THEN <<>>
    ELSE IF Head(draws) < deletion_prob
         THEN delete_no_floor(Tail(rest), deletion_prob, Tail(draws))
         ELSE <<Head(rest)>> \o delete_no_floor(Tail(rest), deletion_prob, Tail(draws))

\* faulty variant: the floor is checked on entry only
delete_sentences_no_floor(sentences, min_sentences, deletion_prob, draws) ==
    IF Len(sentences) <= min_sentences THEN sentences
    ELSE delete_no_floor(sentences, deletion_prob, draws)

\* draws[i] is the i-th draw of the randomness source
delete_sentences(sentences, min_sentences, deletion_prob, draws) ==
    IF Len(sentences) <= min_sentences THEN sentences
    ELSE delete_loop(sentences, <<>>, min_sentences, deletion_prob, draws)

delete_words(words, min_words, deletion_prob, draws) ==
    delete_sentences(words, min_words, deletion_prob, draws)

\* exchange the elements at two distinct 0-based indices
swap_sentences(sentences, i, j) ==
    IF Len(sentences) < 2 THEN sentences
    ELSE [k \in 1..Len(sentences) |->
             IF k = i + 1 THEN sentences[j + 1]
             ELSE IF k = j + 1 THEN sentences[i + 1]
             ELSE sentences[k]]

swap_words(words, i, j) == swap_sentences(words, i, j)

-----------------------------------------------------------------------------
(* transforms.py: the transform classes, as Python executes them.          *)

Classes == {"RandomSwapSentences", "RandomSwapWords",
            "RandomDeletionSentences", "RandomDeletionWords"}

\* the method resolution order of a class
MRO(cls) == {cls, "TextTransform", "BasicTransform"}

\* the class named in the super(<class>, self) call of __init__
SuperArg(cls) ==
    IF cls = "RandomDeletionWords" THEN "RandomDeletionSentences" ELSE cls

\* the keyword parameters of __init__; each is stored under its own name
InitParams(cls) ==
    IF cls = "RandomDeletionSentences"
    THEN {"min_sentences", "deletion_prob", "always_apply", "p"}
    ELSE IF cls = "RandomDeletionWords"
    THEN {"min_words_each_sentence", "deletion_prob", "always_apply", "p"}
    ELSE {"always_apply", "p"}

get_transform_init_args_names(cls) ==
    IF cls = "RandomDeletionSentences" THEN {"min_sentences", "deletion_prob"}
    ELSE IF cls = "RandomDeletionWords" THEN {"min_words_each_sentence", "delete_prob"}
    ELSE {}

\* the attributes every instance finds on its class
ClassAttributes ==
    {"targets", "update_params", "get_sentences_from_text",
     "get_words_from_sentence", "combine_sentences", "combine_words",
     "apply", "get_transform_init_args_names"}

\* the names bound at module level by the imports and the class statements
ModuleGlobals ==
    {"Any", "Callable", "Dict", "Tuple", "BasicTransform", "Word", "Words",
     "Sentence", "Sentences", "Text", "F", "TextTransform"} \cup Classes

Attr(name) == [kind |-> "attribute", name |-> name]
Global(name) == [kind |-> "global", name |-> name]

\* the names apply() looks up, in evaluation order
ApplyLookups(cls) ==
    IF cls = "RandomSwapSentences"
    THEN <<Attr("get_senteces_from_text"), Global("F"), Attr("combine_sentences")>>
    ELSE IF cls = "RandomSwapWords"
    THEN <<Attr("get_sentences_from_text"), Global("np"),
           Attr("get_words_from_sentence"), Global("F"), Attr("combine_words"),
           Attr("combine_senteces")>>
    ELSE IF cls = "RandomDeletionSentences"
    THEN <<Attr("get_senteces_from_text"), Global("F"), Attr("min_sentences"),
           Attr("deletion_prob"), Attr("combine_sentences")>>
    ELSE <<Attr("get_senteces_from_text")>>

Resolves(obj, lookup) ==
    IF lookup.kind = "global" THEN lookup.name \in ModuleGlobals
    ELSE lookup.name \in (DOMAIN obj.attrs) \cup ClassAttributes

\* cls(**kwargs)
Construct(cls, kwargs) ==
    IF ~(DOMAIN kwargs \subseteq InitParams(cls))
    THEN [raised |-> "TypeError"]
    ELSE IF SuperArg(cls) \notin MRO(cls)
    THEN [raised |-> "TypeError"]
    ELSE [raised |-> "None", obj |-> [cls |-> cls, attrs |-> kwargs]]

\* A.to_dict(augment): the init args by name, and always_apply and p
to_dict(obj) ==
    LET names == get_transform_init_args_names(obj.cls) \cup {"always_apply", "p"}
    IN IF \E name \in names : name \notin DOMAIN obj.attrs
       THEN [raised |-> "AttributeError"]
       ELSE [raised |-> "None",
             dict |-> [cls |-> obj.cls,
                       params |-> [name \in names |-> obj.attrs[name]]]]

\* A.from_dict(serialized_augment)
from_dict(dict) == Construct(dict.cls, dict.params)

\* the i-th value of random.random() after set_seed(seed), in percent
RandomStream(seed, i) == (seed * 37 + i * 11) % 100

\* the body of apply() once every name has resolved
ApplyBody(obj, text, seed) ==
    IF obj.cls = "RandomSwapSentences"
    THEN LET sentences == get_sentences_from_text(text)
             k == Len(sentences)
             i == IF k < 2 THEN 0 ELSE RandomStream(seed, 2) % k
             j == IF k < 2 THEN 0
                  ELSE (i + 1 + (RandomStream(seed, 3) % (k - 1))) % k
         IN [raised |-> "None",
             ret |-> combine_sentences(swap_sentences(sentences, i, j))]
    ELSE IF obj.cls = "RandomSwapWords"
    THEN LET sentences == get_sentences_from_text(text)
             k == Len(sentences)
         IN IF k = 0 THEN [raised |-> "ValueError"]
            ELSE LET idx == RandomStream(seed, 2) % k
                     words == get_words_from_sentence(sentences[idx + 1])
                     w == Len(words)
                     i == IF w < 2 THEN 0 ELSE RandomStream(seed, 3) % w
                     j == IF w < 2 THEN 0
                          ELSE (i + 1 + (RandomStream(seed, 4) % (w - 1))) % w
                     sentence == combine_words(swap_words(words, i, j))
                 IN [raised |-> "None",
                     ret |-> combine_sentences(
                                 [m \in 1..k |-> IF m = idx + 1 THEN sentence
                                                 ELSE sentences[m]])]
    ELSE IF obj.cls = "RandomDeletionSentences"
    THEN LET sentences == get_sentences_from_text(text)
             draws == [m \in 1..Len(sentences) |-> RandomStream(seed, m + 1)]
         IN [raised |-> "None",
             ret |-> combine_sentences(
                         delete_sentences(sentences, obj.attrs.min_sentences,
                                          obj.attrs.deletion_prob, draws))]
    ELSE LET sentences == get_sentences_from_text(text)
         IN [raised |-> "None",
             ret |-> combine_sentences(
                 [m \in 1..Len(sentences) |->
                     LET words == get_words_from_sentence(sentences[m])
                         draws == [d \in 1..Len(words) |-> RandomStream(seed, m + d)]
                     IN combine_words(
                            delete_words(words, obj.attrs.min_words_each_sentence,
                                         obj.attrs.deletion_prob, draws))])]

\* obj.apply(text): the first name that does not resolve raises
apply(obj, text, seed) ==
    LET lookups == ApplyLookups(obj.cls)
        failing == {i \in 1..Len(lookups) : ~Resolves(obj, lookups[i])}
    IN IF failing # {}
       THEN LET first == CHOOSE i \in failing : \A j \in failing : i <= j
            IN [raised |-> IF lookups[first].kind = "global"
                           THEN "NameError" ELSE "AttributeError"]
       ELSE ApplyBody(obj, text, seed)

\* set_seed(seed); augment(text=text): apply() runs when always_apply is set
\* or the first draw is below p, otherwise the text is returned as it is
RunTransform(obj, text, seed) ==
    IF obj.attrs.always_apply \/ RandomStream(seed, 1) < obj.attrs.p
    THEN apply(obj, text, seed)
    ELSE [raised |-> "None", ret |-> text]

-----------------------------------------------------------------------------
(* Inputs.                                                                 *)

Indices == (-MaxN)..MaxN

\* well-formed sentences: words joined by one space, no '.', not empty
Sentences == {<<"a">>, <<"b">>, <<"a", Space, "b">>}

RECURSIVE ListsOfLen(_)
ListsOfLen(k) ==
    IF k = 0 THEN {<<>>}
    ELSE {Append(l, s) : l \in ListsOfLen(k - 1), s \in Sentences}

SentenceLists == UNION {ListsOfLen(k) : k \in 0..MaxSentences}

\* Texts in canonical form, the empty Text included
CanonicalTexts == {join_sentences_into_text(l) : l \in SentenceLists}

OptionalSentenceLists == {None} \cup {Some(l) : l \in SentenceLists}

\* element lists and draws given to the deletion algorithm
Elements == {<<"a">>, <<"b">>}

RECURSIVE ElementListsOfLen(_)
ElementListsOfLen(k) ==
    IF k = 0 THEN {<<>>}
    ELSE {Append(l, e) : l \in ElementListsOfLen(k - 1), e \in Elements}

ElementLists == UNION {ElementListsOfLen(k) : k \in 0..MaxElems}

MinRetained == 0..MaxMinRetained

Seeds == {0, 42}
ApplyProbabilities == {50, 100}

KwargsOf(cls) ==
    IF cls = "RandomDeletionSentences"
    THEN [min_sentences : MinRetained, deletion_prob : Probabilities,
          always_apply : BOOLEAN, p : ApplyProbabilities]
    ELSE IF cls = "RandomDeletionWords"
    THEN [min_words_each_sentence : MinRetained, deletion_prob : Probabilities,
          always_apply : BOOLEAN, p : ApplyProbabilities]
    ELSE [always_apply : BOOLEAN, p : ApplyProbabilities]

-----------------------------------------------------------------------------
Init ==
    /\ op = "idle"
    /\ args = [text |-> <<>>]
    /\ ret = <<>>
    /\ calls = <<>>
    /\ stage = "idle"
    /\ augment = None
    /\ serialized_augment = None
    /\ deserialized_augment = None
    /\ augmented_data = <<>>
    /\ deserialized_augmented_data = <<>>
    /\ raised = "None"

Idle == op = "idle" /\ stage = "idle"

CallSplitText ==
    /\ Idle
    /\ \E text \in Strings :
        /\ op' = "split_text_into_sentences"
        /\ args' = [text |-> text]
        /\ ret' = split_text_into_sentences(text)
    /\ UNCHANGED <<calls, testVars>>

CallSplitSentence ==
    /\ Idle
    /\ \E sentence \in Strings :
        /\ op' = "split_sentence_into_words"
        /\ args' = [text |-> sentence]
        /\ ret' = split_sentence_into_words(sentence)
    /\ UNCHANGED <<calls, testVars>>

\* join_sentences_into_text(split_text_into_sentences(text))
CallRoundTripText ==
    /\ Idle
    /\ \E text \in Strings :
        /\ op' = "round_trip_text"
        /\ args' = [text |-> text]
        /\ ret' = join_sentences_into_text(split_text_into_sentences(text))
    /\ UNCHANGED <<calls, testVars>>

\* join_words_into_sentence(split_sentence_into_words(sentence))
CallRoundTripSentence ==
    /\ Idle
    /\ \E sentence \in Strings :
        /\ op' = "round_trip_sentence"
        /\ args' = [text |-> sentence]
        /\ ret' = join_words_into_sentence(split_sentence_into_words(sentence))
    /\ UNCHANGED <<calls, testVars>>

CallExtractNthSentence ==
    /\ Idle
    /\ \E text \in Strings, n \in Indices :
        /\ op' = "extract_nth_sentence"
        /\ args' = [text |-> text, n |-> n]
        /\ ret' = extract_nth_sentence(text, n)
    /\ UNCHANGED <<calls, testVars>>

CallRemoveNthSentence ==
    /\ Idle
    /\ \E text \in Strings, n \in Indices :
        /\ op' = "remove_nth_sentence"
        /\ args' = [text |-> text, n |-> n]
        /\ ret' = remove_nth_sentence(text, n)
    /\ UNCHANGED <<calls, testVars>>

CallWrapTextWithSentences ==
    /\ Idle
    /\ \E text \in CanonicalTexts, prefix_sentences \in OptionalSentenceLists,
          suffix_sentences \in OptionalSentenceLists :
        /\ op' = "wrap_text_with_sentences"
        /\ args' = [text |-> text, prefix_sentences |-> prefix_sentences,
                    suffix_sentences |-> suffix_sentences]
        /\ ret' = wrap_text_with_sentences(text, prefix_sentences, suffix_sentences)
    /\ UNCHANGED <<calls, testVars>>

CallPassEmptyText ==
    /\ Idle
    /\ \E func \in TextFuncs, text \in Strings, n \in Indices :
        LET r == pass_empty_text(func, text, n)
        IN /\ op' = "pass_empty_text"
           /\ args' = [text |-> text, n |-> n, func |-> func]
           /\ ret' = r.ret
           /\ calls' = r.calls
    /\ UNCHANGED testVars

CallAutopsyText ==
    /\ Idle
    /\ \E func \in ListFuncs, text \in Strings, n \in Indices :
        LET r == autopsy_text(func, text, n)
        IN /\ op' = "autopsy_text"
           /\ args' = [text |-> text, n |-> n, func |-> func]
           /\ ret' = r.ret
           /\ calls' = r.calls
    /\ UNCHANGED testVars

CallAutopsySentence ==
    /\ Idle
    /\ \E func \in ListFuncs, sentence \in Strings, n \in Indices :
        LET r == autopsy_sentence(func, sentence, n)
        IN /\ op' = "autopsy_sentence"
           /\ args' = [text |-> sentence, n |-> n, func |-> func]
           /\ ret' = r.ret
           /\ calls' = r.calls
    /\ UNCHANGED testVars

\* combine_sentences(get_sentences_from_text(text))
CallFacadeRoundTrip ==
    /\ Idle
    /\ \E text \in Strings :
        /\ op' = "facade_round_trip"
        /\ args' = [text |-> text]
        /\ ret' = combine_sentences(get_sentences_from_text(text))
    /\ UNCHANGED <<calls, testVars>>

CallDeleteSentences ==
    /\ Idle
    /\ \E sentences \in ElementLists, min_sentences \in MinRetained,
          deletion_prob \in Probabilities :
        \E draws \in [1..Len(sentences) -> Draws] :
            /\ op' = "delete_sentences"
            /\ args' = [sentences |-> sentences, min_sentences |-> min_sentences,
                        deletion_prob |-> deletion_prob, draws |-> draws]
            /\ ret' = delete_sentences(sentences, min_sentences, deletion_prob, draws)
    /\ UNCHANGED <<calls, testVars>>

\* augment = augmentation(**kwargs)
TestConstruct ==
    /\ Idle
    /\ \E cls \in Classes, text \in CanonicalTexts, seed \in Seeds :
        \E kwargs \in KwargsOf(cls) :
            LET r == Construct(cls, kwargs)
            IN /\ op' = "test_augmentations_serialization"
               /\ args' = [text |-> text, seed |-> seed, cls |-> cls,
                           kwargs |-> kwargs]
               /\ IF r.raised = "None"
                  THEN /\ augment' = r.obj
                       /\ stage' = "constructed"
                       /\ raised' = "None"
                  ELSE /\ augment' = None
                       /\ stage' = "error"
                       /\ raised' = r.raised
    /\ UNCHANGED <<ret, calls, serialized_augment, deserialized_augment,
                   augmented_data, deserialized_augmented_data>>

\* serialized_augment = A.to_dict(augment)
TestToDict ==
    /\ stage = "constructed"
    /\ LET r == to_dict(augment)
       IN IF r.raised = "None"
          THEN /\ serialized_augment' = r.dict
               /\ stage' = "serialized"
               /\ raised' = "None"
          ELSE /\ serialized_augment' = None
               /\ stage' = "error"
               /\ raised' = r.raised
    /\ UNCHANGED <<callVars, augment, deserialized_augment, augmented_data,
                   deserialized_augmented_data>>

\* deserialized_augment = A.from_dict(serialized_augment)
TestFromDict ==
    /\ stage = "serialized"
    /\ LET r == from_dict(serialized_augment)
       IN IF r.raised = "None"
          THEN /\ deserialized_augment' = r.obj
               /\ stage' = "deserialized"
               /\ raised' = "None"
          ELSE /\ deserialized_augment' = None
               /\ stage' = "error"
               /\ raised' = r.raised
    /\ UNCHANGED <<callVars, augment, serialized_augment, augmented_data,
                   deserialized_augmented_data>>

\* set_seed(seed); augmented_data = augment(text=long_text)
TestRunAugment ==
    /\ stage = "deserialized"
    /\ LET r == RunTransform(augment, args.text, args.seed)
       IN IF r.raised = "None"
          THEN /\ augmented_data' = r.ret
               /\ stage' = "augmented"
               /\ raised' = "None"
          ELSE /\ augmented_data' = <<>>
               /\ stage' = "error"
               /\ raised' = r.raised
    /\ UNCHANGED <<callVars, augment, serialized_augment, deserialized_augment,
                   deserialized_augmented_data>>

\* set_seed(seed); deserialized_augmented_data = deserialized_augment(text=long_text)
TestRunDeserialized ==
    /\ stage = "augmented"
    /\ LET r == RunTransform(deserialized_augment, args.text, args.seed)
       IN IF r.raised = "None"
          THEN /\ deserialized_augmented_data' = r.ret
               /\ stage' = "done"
               /\ raised' = "None"
          ELSE /\ deserialized_augmented_data' = <<>>
               /\ stage' = "error"
               /\ raised' = r.raised
    /\ UNCHANGED <<callVars, augment, serialized_augment, deserialized_augment,
                   augmented_data>>

Return ==
    /\ op # "idle"
    /\ stage \in {"idle", "done", "error"}
    /\ op' = "idle"
    /\ args' = [text |-> <<>>]
    /\ ret' = <<>>
    /\ calls' = <<>>
    /\ stage' = "idle"
    /\ augment' = None
    /\ serialized_augment' = None
    /\ deserialized_augment' = None
    /\ augmented_data' = <<>>
    /\ deserialized_augmented_data' = <<>>
    /\ raised' = "None"

Next ==
    \/ CallSplitText
    \/ CallSplitSentence
    \/ CallRoundTripText
    \/ CallRoundTripSentence
    \/ CallExtractNthSentence
    \/ CallRemoveNthSentence
    \/ CallWrapTextWithSentences
    \/ CallPassEmptyText
    \/ CallAutopsyText
    \/ CallAutopsySentence
    \/ CallFacadeRoundTrip
    \/ CallDeleteSentences
    \/ TestConstruct
    \/ TestToDict
    \/ TestFromDict
    \/ TestRunAugment
    \/ TestRunDeserialized
    \/ Return

Spec == Init /\ [][Next]_vars

-----------------------------------------------------------------------------
(* Properties.                                                             *)

Min(a, b) == IF a <= b THEN a ELSE b

\* the elements occur in s as disjoint substrings, in this order, from `from` on
RECURSIVE OccurInOrder(_, _, _)
OccurInOrder(elems, s, from) ==
    IF elems = <<>> THEN TRUE
    ELSE LET e == Head(elems)
         IN \E i \in from..(Len(s) - Len(e) + 1) :
                /\ SubSeq(s, i, i + Len(e) - 1) = e
                /\ OccurInOrder(Tail(elems), s, i + Len(e))

Stripped(e) == e # <<>> /\ e[1] \notin Whitespace /\ e[Len(e)] \notin Whitespace

\* C1: splitting a text into sentences and joining them again is idempotent:
\* the result of one split/join pass is a fixed point of a second pass; the
\* same holds for splitting a sentence into words and joining them.
C1_SplitJoinIdempotent ==
    /\ op = "round_trip_text" =>
          join_sentences_into_text(split_text_into_sentences(ret)) = ret
    /\ op = "round_trip_sentence" =>
          join_words_into_sentence(split_sentence_into_words(ret)) = ret

\* a text of two sentences that the first pass changed
C1_Witness ==
    /\ op = "round_trip_text"
    /\ Len(split_text_into_sentences(args.text)) >= 2
    /\ ret # args.text

\* C2: no split yields an empty element; every element is non-empty, has no
\* leading or trailing whitespace, holds no delimiter of its grain, and the
\* elements occur in the input in their order; the empty string splits into
\* the empty list.
C2_SplitElementsWellFormed ==
    /\ op = "split_text_into_sentences" =>
          /\ \A i \in 1..Len(ret) : Stripped(ret[i]) /\ ~Contains(ret[i], Dot)
          /\ OccurInOrder(ret, args.text, 1)
          /\ (args.text = <<>> => ret = <<>>)
    /\ op = "split_sentence_into_words" =>
          /\ \A i \in 1..Len(ret) :
                Stripped(ret[i]) /\ \A c \in Whitespace : ~Contains(ret[i], c)
          /\ OccurInOrder(ret, args.text, 1)
          /\ (args.text = <<>> => ret = <<>>)

\* a text with an empty piece and a piece with surrounding whitespace
C2_Witness ==
    /\ op = "split_text_into_sentences"
    /\ Len(ret) >= 1
    /\ Len(split_on_dot(args.text)) > Len(ret) + 1
    /\ \E i \in 1..Len(split_on_dot(args.text)) :
          LET piece == split_on_dot(args.text)[i]
          IN piece # <<>> /\ str_strip(piece) # piece /\ str_strip(piece) # <<>>

\* C3 as stated: the sentence at index n when 0 <= n < k, the empty string
\* for every other integer n.
C3_ExtractEmptyOutsideZeroToK ==
    op = "extract_nth_sentence" =>
        LET sentences == split_text_into_sentences(args.text)
        IN IF 0 <= args.n /\ args.n < Len(sentences)
           THEN ret = sentences[args.n + 1]
           ELSE ret = <<>>

\* C3 amended: the sentence at index n when 0 <= n < k, the sentence at index
\* k + n when -k <= n < 0, the empty string when n >= k or n < -k.
C3_ExtractNthSentence ==
    op = "extract_nth_sentence" =>
        LET sentences == split_text_into_sentences(args.text)
            k == Len(sentences)
        IN /\ (0 <= args.n /\ args.n < k) => ret = sentences[args.n + 1]
           /\ (-k <= args.n /\ args.n < 0) => ret = sentences[k + args.n + 1]
           /\ (args.n >= k \/ args.n < -k) => ret = <<>>

\* a negative index inside -k .. -1 returns a sentence
C3_Witness ==
    /\ op = "extract_nth_sentence"
    /\ args.n < 0
    /\ -Len(split_text_into_sentences(args.text)) <= args.n
    /\ ret # <<>>

\* C4: for n >= k the input text comes back unchanged; for 0 <= n < k the
\* result is the text joined from the sentences without the one at index n.
C4_RemoveNthSentence ==
    op = "remove_nth_sentence" =>
        LET sentences == split_text_into_sentences(args.text)
            k == Len(sentences)
        IN /\ args.n >= k => ret = args.text
           /\ (0 <= args.n /\ args.n < k) =>
                 ret = join_sentences_into_text(
                           SubSeq(sentences, 1, args.n)
                           \o SubSeq(sentences, args.n + 2, k))

\* an out-of-range index on a text that is not in canonical form
C4_Witness ==
    /\ op = "remove_nth_sentence"
    /\ Len(split_text_into_sentences(args.text)) >= 1
    /\ args.n >= Len(split_text_into_sentences(args.text))
    /\ args.text # join_sentences_into_text(split_text_into_sentences(args.text))
    /\ ret = args.text

\* C5: on the empty text the decorated function is not invoked and the text
\* is returned; on any other text it is invoked exactly once, with the same
\* text and argument, and its result is returned.
C5_PassEmptyText ==
    op = "pass_empty_text" =>
        IF args.text = <<>>
        THEN ret = args.text /\ calls = <<>>
        ELSE /\ calls = <<[func |-> args.func, arg |-> args.text, n |-> args.n]>>
             /\ ret = TextFn(args.func, args.text, args.n)

\* the guarded call on the empty text
C5_Witness ==
    /\ op = "pass_empty_text"
    /\ args.text = <<>>
    /\ calls = <<>>
    /\ ret = <<>>

\* C6: the deletion keeps at least min(len(S), minRetained) elements, and
\* returns S unchanged when len(S) <= minRetained.
C6_DeletionFloor ==
    op = "delete_sentences" =>
        /\ Len(ret) >= Min(Len(args.sentences), args.min_sentences)
        /\ Len(args.sentences) <= args.min_sentences => ret = args.sentences

\* every draw deletes, and the floor stops the deletion
C6_Witness ==
    /\ op = "delete_sentences"
    /\ args.min_sentences >= 1
    /\ Len(args.sentences) > args.min_sentences + 1
    /\ args.deletion_prob = 100
    /\ Len(ret) = args.min_sentences

\* C7: the serialization round trip succeeds for every transform and both
\* instances return the same text.
C7_SerializationReproducible ==
    stage \in {"done", "error"} =>
        /\ raised = "None"
        /\ augmented_data = deserialized_augmented_data

\* C8: the wrapped text is a valid Text: it equals the join of its own split.
C8_WrapReturnsValidText ==
    op = "wrap_text_with_sentences" =>
        ret = join_sentences_into_text(split_text_into_sentences(ret))

\* C9: the lifted call returns the join of the function's result on the split
\* input, the function is invoked exactly once on the split input with the
\* extra argument unchanged; lifting the identity returns the canonical form,
\* and lifting 'delete index 1' over two sentences returns the first sentence
\* followed by a single '.'.
C9_GrainLifting ==
    /\ op = "autopsy_text" =>
          LET sentences == split_text_into_sentences(args.text)
          IN /\ ret = join_sentences_into_text(ListFn(args.func, sentences, args.n))
             /\ calls = <<[func |-> args.func, arg |-> sentences, n |-> args.n]>>
             /\ args.func = "identity" =>
                   /\ ret = join_sentences_into_text(sentences)
                   /\ join_sentences_into_text(split_text_into_sentences(ret)) = ret
             /\ (args.func = "remove_nth" /\ args.n = 1 /\ Len(sentences) = 2) =>
                   ret = sentences[1] \o <<Dot>>
    /\ op = "autopsy_sentence" =>
          LET words == split_sentence_into_words(args.text)
          IN /\ ret = join_words_into_sentence(ListFn(args.func, words, args.n))
             /\ calls = <<[func |-> args.func, arg |-> words, n |-> args.n]>>
             /\ args.func = "identity" =>
                   /\ ret = join_words_into_sentence(words)
                   /\ join_words_into_sentence(split_sentence_into_words(ret)) = ret

\* 'delete index 1' lifted over a text of two sentences
C9_Witness ==
    /\ op = "autopsy_text"
    /\ args.func = "remove_nth"
    /\ args.n = 1
    /\ Len(split_text_into_sentences(args.text)) = 2
    /\ Len(calls) = 1

\* C10: recombining the sentences the facade got from a text gives the text
\* back, for every text.
C10_FacadeRoundTrip ==
    op = "facade_round_trip" => ret = args.text

====
